---- MODULE Spec2Model ----
(***************************************************************************)
(* The auction and inventory consistency engine of carbonbridge:           *)
(* models/operations/listings.py and models/operations/auctions.py over    *)
(* the versioned document store of clients/couchbase/base_model.py.        *)
(*                                                                         *)
(* Every request runs as a task (a process of Procs).  A task yields at    *)
(* each await on the store; the code between two awaits runs atomically.   *)
(* One action of this module is one such step.                             *)
(*                                                                         *)
(* Units: quantities in whole tonnes, amounts in units of 0.50 EUR, time   *)
(* in units of five minutes.  None is written 0 for ids and amounts.       *)
(***************************************************************************)
EXTENDS Integers, Sequences, FiniteSets, TLC

\* ------------------------------------------------------------------ bounds
NumProcs == 2
MaxAuctions == 1
MaxBids == 2
MaxOrders == 2
MaxClock == 3
MaxAmount == 3
ListingTotal == 1
MaxQty == 2
MaxTotal == 2
MaxSold == 3
MaxLifeAuctions == 2
LifeTotal == 2

\* ------------------------------------------------------- program constants
MAX_RETRIES == 5
MIN_BID_INCREMENT == 1
AUTO_EXTEND == 1
AUTO_EXTEND_DURATION == 1
BACKOFF_MS == 10

\* ------------------------------------------------------------ input values
SellerId == NumProcs + 1
StartingPrice == 1
EndsAt == 2

Procs == 1..NumProcs
AuctionIds == 1..MaxAuctions
\* The user a task's request comes from: the seller, or the buyer of that task.
BiddersOf(p) == {SellerId, p}
Sellers == {SellerId, SellerId + 1}
Amounts == 0..MaxAmount
Quantities == 1..MaxQty
Deltas == (0 - MaxQty)..MaxQty \ {0}
\* starts_at: now or earlier, or one unit of time from the start.
StartTimes == {0, 1}

\* AuctionConfig: reserve and buy-now price are optional (0 is None).
Configs ==
  << [reserve |-> 0, buy_now |-> 0],
     [reserve |-> 2, buy_now |-> 0],
     [reserve |-> 0, buy_now |-> 2],
     [reserve |-> 3, buy_now |-> 2] >>

Max(x, y) == IF x >= y THEN x ELSE y

VARIABLES
  listing,    \* the Listing document: [total, reserved, sold, status]
  auctions,   \* AuctionIds -> Auction document (status "none": not created)
  bids,       \* sequence of Bid documents, a bid's id is its index
  orders,     \* sequence of Order documents, an order's id is its index
  procs,      \* Procs -> the task's position and locals
  clock,      \* datetime.now()
  accepted,   \* history: the bids whose auction write succeeded
  confirmed,  \* history: AuctionIds -> successful listing_confirm_sale calls
  hist        \* scheduling mode and the record of the last completed call

vars == <<listing, auctions, bids, orders, procs, clock, accepted, confirmed, hist>>
store == <<listing, auctions, bids, orders>>

\* ---------------------------------------------------------------- documents
NoAuction ==
  [status |-> "none", cfg |-> 1, quantity |-> 0, ends_at |-> 0,
   effective_ends_at |-> 0,
   extensions_count |-> 0, current_high_bid_eur |-> 0, current_high_bid_id |-> 0,
   current_high_bidder_id |-> 0, bid_count |-> 0, winner_id |-> 0,
   winning_bid_id |-> 0, winning_price |-> 0, order_id |-> 0]

\* An auction that starts active whatever its starts_at.
NewAuctionAlwaysActive(cfg, qty, scheduled) ==
  [NoAuction EXCEPT !.status = "active", !.cfg = cfg, !.quantity = qty,
                    !.ends_at = EndsAt, !.effective_ends_at = EndsAt]

\* The record built without effective_ends_at = ends_at (it stays 0).
NewAuctionNoEffectiveEnd(cfg, qty, scheduled) ==
  [NoAuction EXCEPT !.status = IF scheduled THEN "scheduled" ELSE "active",
                    !.cfg = cfg, !.quantity = qty, !.ends_at = EndsAt]

\* AuctionData as auction_create builds it (starts_at is stored and never
\* read again: the record here leaves it out).
NewAuction(cfg, qty, scheduled) ==
  [NoAuction EXCEPT !.status = IF scheduled THEN "scheduled" ELSE "active",
                    !.cfg = cfg, !.quantity = qty,
                    !.ends_at = EndsAt, !.effective_ends_at = EndsAt]

\* ListingData as listing_create stores it, once the seller has activated it.
NewListing(total) ==
  [total |-> total, reserved |-> 0, sold |-> 0, status |-> "active"]

NoSnap == [status |-> "none", high_eur |-> 0, high_bid |-> 0, bid_count |-> 0]

IdleProc ==
  [pc |-> "idle", op |-> "none", mop |-> "none", a |-> 0, bidder |-> 0,
   amt |-> 0, now |-> 0, prev |-> 0, bn |-> FALSE, bid |-> 0, d |-> NoSnap,
   att |-> 0, backoff_ms |-> BACKOFF_MS, cas |-> FALSE, todo |-> {},
   order |-> 0, res |-> "none", qty |-> 0, cfg |-> 1, starts_at |-> 0,
   seller |-> 0, sched |-> FALSE, failed |-> FALSE, cas_err |-> "none",
   amount_per_tonne_eur |-> 0, warned |-> FALSE, fault |-> "none"]

\* A call that has returned: only what the caller sees is kept.
Done(pr, res) ==
  [IdleProc EXCEPT !.pc = "done", !.op = pr.op, !.a = pr.a, !.bid = pr.bid,
                   !.qty = pr.qty,
                   !.res = res, !.failed = pr.failed, !.cas_err = pr.cas_err,
                   !.warned = pr.warned, !.fault = pr.fault]

\* ------------------------------------------------------- versioned accessor
\* BaseModelCouchbase.get returns the document with its cas; update replaces
\* it only if the cas is unchanged.  A task holds at most one cas at a time:
\* cas = TRUE says no write has hit the document since the task read it.
CasKey(pr) ==
  CASE pr.pc = "l_upd" -> <<"listing", 0>>
    [] pr.pc = "a_upd" -> <<"auction", pr.a>>
    [] pr.pc = "pb_pupd" -> <<"bid", pr.prev>>
    [] pr.pc = "s_wupd" -> <<"bid", pr.d.high_bid>>
    [] pr.pc = "sd_upd" -> <<"listing", 0>>
    [] pr.pc = "rc_upd" -> <<"listing", 0>>
    [] OTHER -> <<"none", 0>>

\* The effect of p's write of document key on the other tasks' cas, with p
\* itself moving to np.
Written(p, np, key) ==
  [q \in Procs |->
     IF q = p THEN np
     ELSE IF CasKey(procs[q]) = key THEN [procs[q] EXCEPT !.cas = FALSE]
     ELSE procs[q]]

\* ------------------------------------------------------------- scheduling
\* hist.seq: calls run one after the other (no task starts or steps while
\* another is in flight).
Others(p) == Procs \ {p}
MayStep(p) == hist.seq => \A q \in Others(p) : procs[q].pc = "idle"

NoHist(seq) ==
  [seq |-> seq, last |-> <<"none", 0>>, snap |-> <<>>, pre |-> <<>>,
   rt |-> <<>>, args |-> <<>>, disposed |-> {}]

\* A call starts: in sequential mode, a settle that directly follows a
\* completed settle of the same auction records the store it found.
\* In sequential mode every call records the store and the time it starts
\* from (pre), and a bid call its bidder and amount (args).
Started(op, a) ==
  LET pre == IF hist.seq THEN <<store, clock>> ELSE <<>> IN
  IF hist.seq /\ op = "settle" /\ hist.last = <<"settle", a>>
    THEN [hist EXCEPT !.snap = <<store>>, !.pre = pre]
    ELSE [hist EXCEPT !.snap = <<>>, !.last = <<"none", 0>>, !.pre = pre]

\* The record of the last two writes of the listing: a successful
\* listing_reserve_quantity(q), q > 0, called on its own (rt = <<q, the
\* listing before it, "reserved">>), and a listing_release_reservation(q)
\* as the very next write (<<q, the listing before the reserve, "released">>).
RoundTrip(pr) ==
  IF pr.op = "reserve" /\ pr.qty > 0
    THEN [hist EXCEPT !.rt = <<pr.qty, listing, "reserved">>]
  ELSE IF /\ pr.op = "release" /\ hist.rt # <<>>
          /\ hist.rt[3] = "reserved" /\ hist.rt[1] = pr.qty
    THEN [hist EXCEPT !.rt = <<pr.qty, hist.rt[2], "released">>]
  ELSE [hist EXCEPT !.rt = <<>>]

\* The record of the auctions whose reservation has been released or
\* confirmed: task pr's listing write is the release of auction_cancel or
\* auction_fail, or the listing_confirm_sale of auction_settle.
Disposed(pr) ==
  LET h == RoundTrip(pr) IN
  IF pr.op \in {"cancel", "settle_fail", "settle"}
    THEN [h EXCEPT !.disposed = @ \cup {pr.a}]
    ELSE h

Init ==
  /\ listing = NewListing(ListingTotal)
  /\ auctions = [a \in AuctionIds |-> NoAuction]
  /\ bids = <<>>
  /\ orders = <<>>
  /\ procs = [p \in Procs |-> IdleProc]
  /\ clock = 0
  /\ accepted = {}
  /\ confirmed = [a \in AuctionIds |-> 0]
  /\ hist = NoHist(FALSE)

InitSeq ==
  /\ listing = NewListing(ListingTotal)
  /\ auctions = [a \in AuctionIds |-> NoAuction]
  /\ bids = <<>>
  /\ orders = <<>>
  /\ procs = [p \in Procs |-> IdleProc]
  /\ clock = 0
  /\ accepted = {}
  /\ confirmed = [a \in AuctionIds |-> 0]
  /\ hist = NoHist(TRUE)

InitLife ==
  /\ listing = NewListing(LifeTotal)
  /\ auctions = [a \in 1..MaxLifeAuctions |-> NoAuction]
  /\ bids = <<>>
  /\ orders = <<>>
  /\ procs = [p \in Procs |-> IdleProc]
  /\ clock = 0
  /\ accepted = {}
  /\ confirmed = [a \in 1..MaxLifeAuctions |-> 0]
  /\ hist = NoHist(FALSE)

InitListing ==
  /\ listing \in {NewListing(t) : t \in 1..MaxTotal}
  /\ auctions = [a \in AuctionIds |-> NoAuction]
  /\ bids = <<>>
  /\ orders = <<>>
  /\ procs = [p \in Procs |-> IdleProc]
  /\ clock = 0
  /\ accepted = {}
  /\ confirmed = [a \in AuctionIds |-> 0]
  /\ hist = NoHist(FALSE)

\* ------------------------------------------------- listing mutators (pure)
\* An availability test that forgets the quantity already sold.
reserve_abortsIgnoresSold(l, q) ==
  LET new_reserved == IF q < 0 THEN Max(l.reserved + q, 0) ELSE l.reserved + q
  IN new_reserved > l.total

\* listing_reserve_quantity._mutate: the abort test ...
reserve_aborts(l, q) ==
  LET new_reserved == IF q < 0 THEN Max(l.reserved + q, 0) ELSE l.reserved + q
      available == l.total - l.sold
  IN new_reserved > available

\* ... and the document it writes.
reserve_mutate(l, q) ==
  [l EXCEPT !.reserved = IF q < 0 THEN Max(@ + q, 0) ELSE @ + q]

\* A release that gives back the whole reservation, not the quantity asked.
release_mutateAll(l, q) == [l EXCEPT !.reserved = 0]

\* listing_release_reservation._mutate
release_mutate(l, q) == [l EXCEPT !.reserved = Max(@ - q, 0)]

\* listing_confirm_sale._mutate
confirm_mutate(l, q) ==
  [l EXCEPT !.reserved = Max(@ - q, 0),
            !.sold = @ + q,
            !.status = IF l.sold + q >= l.total THEN "sold_out" ELSE @]

\* A retry helper returns (False, error): the mutator's abort reason (or
\* "not found"), or the conflict error after the last attempt.
Failed(pr, error) == [pr EXCEPT !.cas_err = error]

\* The listing operation a task is in, and its quantity argument.
Direct == {"reserve", "release", "confirm"}

LOp(pr) ==
  IF pr.op \in Direct THEN pr.op
  ELSE IF pr.op \in {"create", "order_create"} THEN "reserve"
  ELSE IF pr.op \in {"cancel", "settle_fail"} THEN "release"
  ELSE "confirm"

LQty(pr) ==
  IF pr.op \in Direct \cup {"create", "order_create"} THEN pr.qty
  ELSE auctions[pr.a].quantity

ListingAborts(pr) == LOp(pr) = "reserve" /\ reserve_aborts(listing, LQty(pr))

ListingMutate(pr) ==
  CASE LOp(pr) = "reserve" -> reserve_mutate(listing, LQty(pr))
    [] LOp(pr) = "release" -> release_mutate(listing, LQty(pr))
    [] OTHER -> confirm_mutate(listing, LQty(pr))

\* route_order_create and internal_create_order_draft after
\* "reserved = await listing_reserve_quantity(...)": "if not reserved" is
\* false for the pair returned, so the route builds the line item and goes
\* on to order_create.
OrderNext(r, ok) == [r EXCEPT !.pc = "o_ins"]

\* Where the caller goes on once the listing call has returned ok.
\* auction_create raises on failure; cancel, fail and settle go on either
\* way; a call of the controller on its own hands the result to its caller.
\* The order routes test "not reserved" on the (ok, error) pair the
\* controller returns, which is never empty: they go on either way.
AfterListing(pr, ok) ==
  LET r == [pr EXCEPT !.att = 0, !.backoff_ms = BACKOFF_MS, !.cas = FALSE,
                      !.failed = @ \/ ~ok]
  IN
  CASE pr.op = "create" ->
         IF ok THEN [r EXCEPT !.pc = "cr_ins", !.now = clock,
                              !.sched = pr.starts_at > clock]
         ELSE Done(r, "err")
    [] pr.op \in Direct -> Done(r, IF ok THEN "ok" ELSE "err")
    [] pr.op = "order_create" -> OrderNext(r, ok)
    [] pr.op = "cancel" ->
         [r EXCEPT !.pc = "a_get", !.mop = "cancel", !.cas_err = "none"]
    [] pr.op = "settle_fail" ->
         [r EXCEPT !.pc = "a_get", !.mop = "fail", !.cas_err = "none"]
    [] OTHER -> [r EXCEPT !.pc = "a_get", !.mop = "settle", !.cas_err = "none"]

\* ------------------------------------------------- auction mutators (pure)
\* A precondition that also lets a settled auction through.
SettleableAlsoSettled(status) ==
  status \in {"active", "ended", "bought_now", "settled"}

\* auction_settle's status precondition.
Settleable(status) == status \in {"active", "ended", "bought_now"}

\* An activation that does not look at the status it read.
AuctionAbortsNotActivate(pr, d) ==
  CASE pr.mop = "bid" -> d.status # "active"
    [] OTHER -> FALSE

\* The abort tests without the bid mutator's re-validation of the status.
AuctionAbortsNotBid(pr, d) ==
  CASE pr.mop = "activate" -> d.status # "scheduled"
    [] OTHER -> FALSE

\* The abort test of the mutator passed to _auction_cas_retry.
AuctionAborts(pr, d) ==
  CASE pr.mop = "activate" -> d.status # "scheduled"
    [] pr.mop = "bid" -> d.status # "active"
    [] OTHER -> FALSE

\* The mutator extending only strictly inside the window.
place_bid_mutateInsideWindow(pr, d) ==
  LET snipe == d.effective_ends_at - pr.now < AUTO_EXTEND
      d1 == [d EXCEPT !.current_high_bid_eur = pr.amt,
                      !.current_high_bid_id = pr.bid,
                      !.current_high_bidder_id = pr.bidder,
                      !.bid_count = @ + 1,
                      !.effective_ends_at =
                          IF snipe THEN @ + AUTO_EXTEND_DURATION ELSE @,
                      !.extensions_count = IF snipe THEN @ + 1 ELSE @]
  IN IF pr.bn
       THEN [d1 EXCEPT !.status = "bought_now", !.winner_id = pr.bidder,
                       !.winning_bid_id = pr.bid, !.winning_price = pr.amt]
       ELSE d1

\* auction_place_bid._mutate
place_bid_mutate(pr, d) ==
  LET snipe == d.effective_ends_at - pr.now <= AUTO_EXTEND
      d1 == [d EXCEPT !.current_high_bid_eur = pr.amt,
                      !.current_high_bid_id = pr.bid,
                      !.current_high_bidder_id = pr.bidder,
                      !.bid_count = @ + 1,
                      !.effective_ends_at =
                          IF snipe THEN @ + AUTO_EXTEND_DURATION ELSE @,
                      !.extensions_count = IF snipe THEN @ + 1 ELSE @]
  IN IF pr.bn
       THEN [d1 EXCEPT !.status = "bought_now", !.winner_id = pr.bidder,
                       !.winning_bid_id = pr.bid, !.winning_price = pr.amt]
       ELSE d1

\* auction_settle._settle
settle_mutate(pr, d) ==
  [d EXCEPT !.status = "settled",
            !.winner_id = bids[pr.d.high_bid].bidder,
            !.winning_bid_id = pr.d.high_bid,
            !.winning_price = bids[pr.d.high_bid].amount,
            !.order_id = pr.order]

AuctionMutate(pr, d) ==
  CASE pr.mop = "activate" -> [d EXCEPT !.status = "active"]
    [] pr.mop = "bid" -> place_bid_mutate(pr, d)
    [] pr.mop = "cancel" -> [d EXCEPT !.status = "cancelled"]
    [] pr.mop = "fail" -> [d EXCEPT !.status = "failed"]
    [] pr.mop = "ended" -> [d EXCEPT !.status = "ended"]
    [] OTHER -> settle_mutate(pr, d)

\* The checks after the mark-ended step without the reserve price test.
SettleNextIgnoresReserve(pr) ==
  LET r == [pr EXCEPT !.att = 0, !.backoff_ms = BACKOFF_MS, !.cas = FALSE,
                      !.mop = "none", !.cas_err = "none"]
  IN IF pr.d.bid_count = 0 \/ pr.d.high_bid = 0
       THEN [r EXCEPT !.op = "settle_fail", !.pc = "l_get", !.d = NoSnap]
       ELSE [r EXCEPT !.pc = "s_wget",
                      !.d = [NoSnap EXCEPT !.high_bid = pr.d.high_bid]]

\* auction_settle after the mark-ended step: the reserve and no-bid checks on
\* the auction as settle first read it (pr.d).  On the fail path auction_fail
\* starts with an Auction.get that reads only the auction's immutable
\* listing_id and quantity_tonnes: it is no step of its own.
SettleNext(pr) ==
  LET cfg == Configs[auctions[pr.a].cfg]
      r == [pr EXCEPT !.att = 0, !.backoff_ms = BACKOFF_MS, !.cas = FALSE,
                      !.mop = "none", !.cas_err = "none"]
  IN IF (cfg.reserve # 0 /\ pr.d.high_eur < cfg.reserve)
        \/ pr.d.bid_count = 0 \/ pr.d.high_bid = 0
       THEN [r EXCEPT !.op = "settle_fail", !.pc = "l_get", !.d = NoSnap]
       ELSE [r EXCEPT !.pc = "s_wget",
                      !.d = [NoSnap EXCEPT !.high_bid = pr.d.high_bid]]

\* Where the caller goes on once _auction_cas_retry has returned ok.  Locals
\* the rest of the call does not read are dropped.
AfterAuction(pr, ok) ==
  LET r == [pr EXCEPT !.failed = @ \/ ~ok] IN
  CASE pr.mop = "bid" ->
         IF ~ok THEN Done(r, "err")
         ELSE IF pr.prev # 0 /\ ~pr.bn
           THEN [IdleProc EXCEPT !.pc = "pb_pget", !.op = pr.op, !.a = pr.a,
                                 !.bid = pr.bid, !.prev = pr.prev]
           ELSE Done(pr, "ok")
    [] pr.mop = "ended" -> SettleNext(r)
    [] OTHER -> Done(r, IF ok THEN "ok" ELSE "err")

\* _auction_cas_retry: Auction.get and the mutator's abort test.
AuctionRead(pr) ==
  IF auctions[pr.a].status = "none" \/ AuctionAborts(pr, auctions[pr.a])
    THEN AfterAuction(Failed(pr, "abort"), FALSE)
    ELSE [pr EXCEPT !.pc = "a_upd", !.cas = TRUE]

NumCreated ==
  Cardinality({a \in DOMAIN auctions : auctions[a].status # "none"})
InFlight(op, field) ==
  Cardinality({q \in Procs : procs[q].op = op /\ procs[q].pc # "done"
                              /\ procs[q][field] = 0})

\* The retry helpers' loop: a conflict on an attempt past max_retries ...
LastAttemptLater(att) == att = MAX_RETRIES + 1

\* ... `attempt == max_retries`: the conflict on the last attempt of
\* range(max_retries + 1) ends the call.
LastAttempt(att) == att = MAX_RETRIES

\* A conflict on an earlier attempt: sleep backoff_ms, double it, re-read.
Retry(pr, get) ==
  [pr EXCEPT !.pc = get, !.att = @ + 1, !.backoff_ms = @ * 2]

\* ================================================================ actions
\* _listing_cas_retry: Listing.get, then the mutator.
listing_cas_read(p) ==
  LET pr == procs[p] IN
  /\ pr.pc = "l_get" /\ MayStep(p)
  /\ procs' = [procs EXCEPT ![p] =
                 IF ListingAborts(pr) THEN AfterListing(Failed(pr, "abort"), FALSE)
                 ELSE [pr EXCEPT !.pc = "l_upd", !.cas = TRUE]]
  /\ UNCHANGED <<store, clock, accepted, confirmed, hist>>

\* _listing_cas_retry: Listing.update; on a cas mismatch sleep and re-read,
\* or give up after the last attempt.
listing_cas_write(p) ==
  LET pr == procs[p] IN
  /\ pr.pc = "l_upd" /\ MayStep(p)
  /\ IF pr.cas
       THEN /\ listing' = ListingMutate(pr)
            /\ procs' = Written(p, AfterListing(pr, TRUE), <<"listing", 0>>)
            /\ confirmed' = IF pr.op = "settle"
                              THEN [confirmed EXCEPT ![pr.a] = @ + 1]
                              ELSE confirmed
       ELSE /\ procs' = [procs EXCEPT ![p] =
                           IF LastAttempt(pr.att)
                             THEN AfterListing(Failed(pr, "conflict"), FALSE)
                           ELSE Retry(pr, "l_get")]
            /\ UNCHANGED <<listing, confirmed>>
  /\ hist' = IF pr.cas THEN Disposed(pr) ELSE hist
  /\ UNCHANGED <<auctions, bids, orders, clock, accepted>>

\* _auction_cas_retry: Auction.get, then the mutator (a re-read, or the first
\* read of a helper call that follows another await).
auction_cas_read(p) ==
  LET pr == procs[p] IN
  /\ pr.pc = "a_get" /\ MayStep(p)
  /\ procs' = [procs EXCEPT ![p] = AuctionRead(pr)]
  /\ UNCHANGED <<store, clock, accepted, confirmed, hist>>

\* _auction_cas_retry: Auction.update.
auction_cas_write(p) ==
  LET pr == procs[p] IN
  /\ pr.pc = "a_upd" /\ MayStep(p)
  /\ IF pr.cas
       THEN /\ auctions' = [auctions EXCEPT ![pr.a] = AuctionMutate(pr, @)]
            /\ procs' = Written(p, AfterAuction(pr, TRUE), <<"auction", pr.a>>)
            /\ accepted' = IF pr.mop = "bid" THEN accepted \cup {pr.bid}
                           ELSE accepted
       ELSE /\ procs' = [procs EXCEPT ![p] =
                           IF LastAttempt(pr.att)
                             THEN AfterAuction(Failed(pr, "conflict"), FALSE)
                           ELSE Retry(pr, "a_get")]
            /\ UNCHANGED <<auctions, accepted>>
  /\ UNCHANGED <<listing, bids, orders, clock, confirmed, hist>>

\* auction_create's checks on the listing it read (the listing is SellerId's).
CreateError(seller) == seller # SellerId \/ listing.status # "active"

\* auction_create up to the reservation: listing_get and the ownership and
\* status checks.  The status of the new auction is decided after the
\* reservation, from starts_at and the time it is then.
auction_create(p, seller, qty, cfg, starts_at) ==
  /\ procs[p].pc = "idle" /\ MayStep(p)
  /\ ~CreateError(seller) =>
       NumCreated + InFlight("create", "a") < Cardinality(DOMAIN auctions)
  /\ procs' = [procs EXCEPT ![p] =
                 IF CreateError(seller)
                   THEN Done([IdleProc EXCEPT !.op = "create"], "err")
                   ELSE [IdleProc EXCEPT !.pc = "l_get", !.op = "create",
                                         !.seller = seller,
                                         !.qty = qty, !.cfg = cfg,
                                         !.starts_at = starts_at]]
  /\ hist' = Started("create", 0)
  /\ UNCHANGED <<store, clock, accepted, confirmed>>

\* auction_create: Auction.create after the reservation succeeded.
auction_create_insert(p) ==
  LET pr == procs[p]
      a == NumCreated + 1
  IN
  /\ pr.pc = "cr_ins" /\ MayStep(p)
  /\ auctions' = [auctions EXCEPT ![a] = NewAuction(pr.cfg, pr.qty, pr.sched)]
  /\ procs' = [procs EXCEPT ![p] =
                 [Done([pr EXCEPT !.a = a], "ok") EXCEPT
                    !.now = pr.now, !.starts_at = pr.starts_at,
                    !.seller = pr.seller]]
  /\ UNCHANGED <<listing, bids, orders, clock, accepted, confirmed, hist>>

\* auction_activate
auction_activate(p, a) ==
  /\ procs[p].pc = "idle" /\ MayStep(p)
  /\ procs' = [procs EXCEPT ![p] =
                 AuctionRead([IdleProc EXCEPT !.op = "activate",
                                              !.mop = "activate", !.a = a])]
  /\ hist' = Started("activate", a)
  /\ UNCHANGED <<store, clock, accepted, confirmed>>

\* The validation without the test that keeps the seller from bidding.
BidErrorSellerMayBid(d, bidder, amt, now) ==
  LET min_bid == IF d.current_high_bid_eur # 0
                   THEN d.current_high_bid_eur + MIN_BID_INCREMENT
                   ELSE StartingPrice
  IN \/ d.status # "active"
     \/ now > d.effective_ends_at
     \/ amt < min_bid

\* The validation refusing a bid of exactly the minimum amount.
BidErrorStrictlyAbove(d, bidder, amt, now) ==
  LET min_bid == IF d.current_high_bid_eur # 0
                   THEN d.current_high_bid_eur + MIN_BID_INCREMENT
                   ELSE StartingPrice
  IN \/ d.status # "active"
     \/ now > d.effective_ends_at
     \/ bidder = SellerId
     \/ amt <= min_bid

\* auction_place_bid, the validation of lines 201-232 on the first read.
BidError(d, bidder, amt, now) ==
  LET min_bid == IF d.current_high_bid_eur # 0
                   THEN d.current_high_bid_eur + MIN_BID_INCREMENT
                   ELSE StartingPrice
  IN \/ d.status # "active"
     \/ now > d.effective_ends_at
     \/ bidder = SellerId
     \/ amt < min_bid

\* The buy-now test missing a bid of exactly the buy-now price.
IsBuyNowStrictlyAbove(d, amt) ==
  Configs[d.cfg].buy_now # 0 /\ amt > Configs[d.cfg].buy_now

\* auction_place_bid, the buy-now test of lines 224-230.
IsBuyNow(d, amt) ==
  Configs[d.cfg].buy_now # 0 /\ amt >= Configs[d.cfg].buy_now

\* auction_place_bid up to Bid.create: Auction.get and the validation.
auction_place_bid(p, a, bidder, amt) ==
  LET d == auctions[a]
      bad == BidError(d, bidder, amt, clock)
      bn == IsBuyNow(d, amt)
  IN
  /\ procs[p].pc = "idle" /\ MayStep(p)
  /\ ~bad => Len(bids) + InFlight("bid", "bid") < MaxBids
  /\ procs' = [procs EXCEPT ![p] =
                 IF bad
                   THEN Done([IdleProc EXCEPT !.op = "bid", !.a = a], "err")
                   ELSE [IdleProc EXCEPT
                           !.pc = "pb_create", !.op = "bid", !.mop = "bid",
                           !.a = a, !.bidder = bidder, !.now = clock,
                           !.amount_per_tonne_eur = amt, !.bn = bn,
                           !.amt = IF bn THEN Configs[d.cfg].buy_now ELSE amt,
                           !.prev = d.current_high_bid_id]]
  /\ hist' = [Started("bid", a) EXCEPT
                !.args = IF hist.seq THEN <<bidder, amt>> ELSE <<>>]
  /\ UNCHANGED <<store, clock, accepted, confirmed>>

\* auction_place_bid: Bid.create, before the auction write.
place_bid_create(p) ==
  LET pr == procs[p] IN
  /\ pr.pc = "pb_create" /\ MayStep(p)
  /\ bids' = Append(bids, [auction |-> pr.a, bidder |-> pr.bidder,
                           amount |-> pr.amt,
                           is_buy_now |-> pr.bn,
                           status |-> IF pr.bn THEN "buy_now" ELSE "active"])
  /\ procs' = [procs EXCEPT ![p] = [pr EXCEPT !.pc = "a_get",
                                             !.bid = Len(bids) + 1]]
  /\ UNCHANGED <<listing, auctions, orders, clock, accepted, confirmed, hist>>

\* auction_place_bid: Bid.get of the previous high bid.
place_bid_prev_get(p) ==
  LET pr == procs[p] IN
  /\ pr.pc = "pb_pget" /\ MayStep(p)
  /\ procs' = [procs EXCEPT ![p] =
                 IF bids[pr.prev].status = "active"
                   THEN [pr EXCEPT !.pc = "pb_pupd", !.cas = TRUE]
                   ELSE Done(pr, "ok")]
  /\ UNCHANGED <<store, clock, accepted, confirmed, hist>>

\* The outbid step letting the store's exception out of the call.
OutbidFailedRaises(pr) == Done(pr, "exc")

\* auction_place_bid, lines 290-293: the exception of Bid.get or Bid.update is
\* caught, a warning is logged and the call returns (bid, None).
OutbidFailed(pr) == Done([pr EXCEPT !.warned = TRUE], "ok")

\* auction_place_bid: Bid.update of the previous high bid; a cas mismatch is
\* caught and logged.
place_bid_prev_update(p) ==
  LET pr == procs[p] IN
  /\ pr.pc = "pb_pupd" /\ MayStep(p)
  /\ IF pr.cas
       THEN /\ bids' = [bids EXCEPT ![pr.prev].status = "outbid"]
            /\ procs' = Written(p, Done(pr, "ok"), <<"bid", pr.prev>>)
       ELSE /\ procs' = [procs EXCEPT ![p] = OutbidFailed(pr)]
            /\ UNCHANGED bids
  /\ UNCHANGED <<listing, auctions, orders, clock, accepted, confirmed, hist>>

\* auction_cancel up to the release: Auction.get and the checks.
auction_cancel(p, a) ==
  LET d == auctions[a]
      pr == [IdleProc EXCEPT !.op = "cancel", !.a = a]
  IN
  /\ procs[p].pc = "idle" /\ MayStep(p)
  /\ procs' = [procs EXCEPT ![p] =
                 IF \/ d.status = "none"
                    \/ d.bid_count > 0
                    \/ d.status \notin {"scheduled", "active"}
                   THEN Done(pr, "err")
                   ELSE [pr EXCEPT !.pc = "l_get"]]
  /\ hist' = Started("cancel", a)
  /\ UNCHANGED <<store, clock, accepted, confirmed>>

\* auction_settle: Auction.get and the status precondition; the auction as
\* read here (d) decides the rest of the call.
auction_settle(p, a) ==
  LET d == auctions[a]
      pr == [IdleProc EXCEPT
               !.op = "settle", !.a = a,
               !.d = [status |-> d.status, high_eur |-> d.current_high_bid_eur,
                      high_bid |-> d.current_high_bid_id,
                      bid_count |-> d.bid_count]]
  IN
  /\ procs[p].pc = "idle" /\ MayStep(p)
  /\ Settleable(d.status) => Len(orders) + InFlight("settle", "order") < MaxOrders
  /\ procs' = [procs EXCEPT ![p] =
                 IF d.status = "none" \/ ~Settleable(d.status)
                   THEN Done([IdleProc EXCEPT !.op = "settle", !.a = a], "err")
                 ELSE IF d.status = "active"
                   THEN [pr EXCEPT !.pc = "a_get", !.mop = "ended"]
                 ELSE SettleNext(pr)]
  /\ hist' = Started("settle", a)
  /\ UNCHANGED <<store, clock, accepted, confirmed>>

\* auction_settle: Bid.get of the winning bid.
settle_winner_get(p) ==
  LET pr == procs[p] IN
  /\ pr.pc = "s_wget" /\ MayStep(p)
  /\ procs' = [procs EXCEPT ![p] = [pr EXCEPT !.pc = "s_wupd", !.cas = TRUE]]
  /\ UNCHANGED <<store, clock, accepted, confirmed, hist>>

\* auction_settle: Bid.update marks the winning bid won; a cas mismatch is
\* not caught and ends the call.
settle_winner_update(p) ==
  LET pr == procs[p] IN
  /\ pr.pc = "s_wupd" /\ MayStep(p)
  /\ IF pr.cas
       THEN /\ bids' = [bids EXCEPT ![pr.d.high_bid].status = "won"]
            /\ procs' = Written(p, [pr EXCEPT !.pc = "s_bids", !.cas = FALSE],
                                <<"bid", pr.d.high_bid>>)
       ELSE /\ procs' = [procs EXCEPT ![p] = Done(pr, "exc")]
            /\ UNCHANGED bids
  /\ UNCHANGED <<listing, auctions, orders, clock, accepted, confirmed, hist>>

\* auction_get_bids as auction_settle uses it: the bids to mark lost.
ToMarkLost(a, winning) ==
  {b \in 1..Len(bids) :
     /\ bids[b].auction = a
     /\ b # winning
     /\ bids[b].status \notin {"outbid", "won", "buy_now"}}

\* The query's order: amount descending, then placed_at ascending.
FirstBid(S) ==
  CHOOSE b \in S : \A c \in S :
    \/ bids[b].amount > bids[c].amount
    \/ (bids[b].amount = bids[c].amount /\ b <= c)

\* auction_settle: the auction_get_bids query.
settle_get_bids(p) ==
  LET pr == procs[p]
      todo == ToMarkLost(pr.a, pr.d.high_bid)
  IN
  /\ pr.pc = "s_bids" /\ MayStep(p)
  /\ procs' = [procs EXCEPT ![p] =
                 [pr EXCEPT !.todo = todo,
                            !.pc = IF todo = {} THEN "s_order" ELSE "s_lost"]]
  /\ UNCHANGED <<store, clock, accepted, confirmed, hist>>

\* auction_settle: one Bid.update of the loop that marks the other bids lost
\* (documents from a query carry no cas: the replace is unconditional).
settle_mark_lost(p) ==
  LET pr == procs[p]
      b == FirstBid(pr.todo)
      rest == pr.todo \ {b}
  IN
  /\ pr.pc = "s_lost" /\ MayStep(p)
  /\ bids' = [bids EXCEPT ![b].status = "lost"]
  /\ procs' = Written(p, [pr EXCEPT !.todo = rest,
                                    !.pc = IF rest = {} THEN "s_order" ELSE "s_lost"],
                      <<"bid", b>>)
  /\ UNCHANGED <<listing, auctions, orders, clock, accepted, confirmed, hist>>

\* auction_settle: listing_get, order_create, the mock payment and the
\* ledger entries (all on the order this call created).
settle_order_create(p) ==
  LET pr == procs[p]
      w == bids[pr.d.high_bid]
  IN
  /\ pr.pc = "s_order" /\ MayStep(p)
  /\ orders' = Append(orders, [buyer |-> w.bidder, auction |-> pr.a,
                               quantity |-> auctions[pr.a].quantity,
                               price |-> w.amount, status |-> "completed"])
  /\ procs' = [procs EXCEPT ![p] = [pr EXCEPT !.pc = "l_get",
                                             !.order = Len(orders) + 1]]
  /\ UNCHANGED <<listing, auctions, bids, clock, accepted, confirmed, hist>>

\* The collaborators that may fail while auction_settle runs its order step.
Faults == {"order", "ledger"}

\* auction_settle, lines 428-436, when a collaborator fails.  order_create
\* (Order.create) raising is caught nowhere in auction_settle: the exception
\* leaves the call before any order is stored.  A failure of the ledger is
\* caught and logged inside order_record_ledger_entries, and settle goes on
\* with the order it created.
settle_collaborator_fails(p, fault) ==
  LET pr == procs[p]
      w == bids[pr.d.high_bid]
  IN
  /\ pr.pc = "s_order" /\ MayStep(p)
  /\ IF fault = "order"
       THEN /\ procs' = [procs EXCEPT ![p] =
                           Done([pr EXCEPT !.fault = fault], "exc")]
            /\ UNCHANGED orders
       ELSE /\ orders' = Append(orders,
                                [buyer |-> w.bidder, auction |-> pr.a,
                                 quantity |-> auctions[pr.a].quantity,
                                 price |-> w.amount, status |-> "completed"])
            /\ procs' = [procs EXCEPT ![p] =
                           [pr EXCEPT !.pc = "l_get", !.fault = fault,
                                      !.order = Len(orders) + 1]]
  /\ UNCHANGED <<listing, auctions, bids, clock, accepted, confirmed, hist>>

\* A call of the reservation controller on its own (the order routes, the
\* payment webhook, the agents), up to the first Listing.get and mutator.
ListingCall(p, op, q) ==
  LET pr == [IdleProc EXCEPT !.op = op, !.qty = q] IN
  /\ procs[p].pc = "idle" /\ MayStep(p)
  /\ procs' = [procs EXCEPT ![p] =
                 IF ListingAborts(pr) THEN AfterListing(Failed(pr, "abort"), FALSE)
                 ELSE [pr EXCEPT !.pc = "l_upd", !.cas = TRUE]]
  /\ hist' = Started(op, 0)
  /\ UNCHANGED <<store, clock, accepted, confirmed>>

\* listing_reserve_quantity; the order routes pass a negative quantity to
\* give a reservation back.
listing_reserve_quantity(p, q) == ListingCall(p, "reserve", q)

\* listing_release_reservation
listing_release_reservation(p, q) == ListingCall(p, "release", q)

\* listing_confirm_sale
listing_confirm_sale(p, q) ==
  /\ listing.sold + q <= MaxSold
  /\ ListingCall(p, "confirm", q)

\* listing_soft_delete: Listing.get.
listing_soft_delete(p) ==
  /\ procs[p].pc = "idle" /\ MayStep(p)
  /\ procs' = [procs EXCEPT ![p] =
                 [IdleProc EXCEPT !.op = "soft_delete", !.pc = "sd_upd",
                                  !.cas = TRUE]]
  /\ hist' = Started("soft_delete", 0)
  /\ UNCHANGED <<store, clock, accepted, confirmed>>

\* listing_soft_delete: Listing.update of the document read, with status
\* paused; a cas mismatch is not caught.
listing_soft_delete_update(p) ==
  LET pr == procs[p] IN
  /\ pr.pc = "sd_upd" /\ MayStep(p)
  /\ IF pr.cas
       THEN /\ listing' = [listing EXCEPT !.status = "paused"]
            /\ procs' = Written(p, Done(pr, "ok"), <<"listing", 0>>)
            /\ hist' = RoundTrip(pr)
       ELSE /\ procs' = [procs EXCEPT ![p] = Done(pr, "exc")]
            /\ UNCHANGED <<listing, hist>>
  /\ UNCHANGED <<auctions, bids, orders, clock, accepted, confirmed>>

\* route_order_create and internal_create_order_draft for a request with one
\* line item of q on the listing: listing_get and the checks on the document
\* read (404 is not modelled: the listing exists), then the call of
\* listing_reserve_quantity.
route_order_create(p, q) ==
  LET pr == [IdleProc EXCEPT !.op = "order_create", !.qty = q]
      available == listing.total - listing.reserved - listing.sold
  IN
  /\ procs[p].pc = "idle" /\ MayStep(p)
  /\ Len(orders) + InFlight("order_create", "order") < MaxOrders
  /\ procs' = [procs EXCEPT ![p] =
                 IF listing.status # "active" \/ q > available
                   THEN Done(pr, "err")
                 ELSE [pr EXCEPT !.pc = "l_get"]]
  /\ hist' = Started("order_create", 0)
  /\ UNCHANGED <<store, clock, accepted, confirmed>>

\* route_order_create and internal_create_order_draft: order_create with the
\* line item built, and the response.
route_order_insert(p) ==
  LET pr == procs[p] IN
  /\ pr.pc = "o_ins" /\ MayStep(p)
  /\ orders' = Append(orders, [buyer |-> p, auction |-> 0,
                               quantity |-> pr.qty, price |-> 0,
                               status |-> "pending"])
  /\ procs' = [procs EXCEPT ![p] = Done(pr, "ok")]
  /\ UNCHANGED <<listing, auctions, bids, clock, accepted, confirmed, hist>>

\* route_confirm_payment and route_order_mock_confirm, the line item loop:
\* what the route does to the listing document it read.
route_confirm_mutate(l, q) ==
  LET l1 == [l EXCEPT !.reserved = @ - q, !.sold = @ + q] IN
  IF l1.sold >= l1.total THEN [l1 EXCEPT !.status = "sold_out"] ELSE l1

\* route_confirm_payment (route_order_mock_confirm alike) for a pending order
\* with one line item of q on the listing, once its payment has succeeded:
\* listing_get.  The order is pending, so its reservation of q is held.
route_confirm_payment(p, q) ==
  /\ procs[p].pc = "idle" /\ MayStep(p)
  /\ listing.reserved >= q /\ listing.sold + q <= MaxSold
  /\ procs' = [procs EXCEPT ![p] =
                 [IdleProc EXCEPT !.op = "route_confirm", !.pc = "rc_upd",
                                  !.qty = q, !.cas = TRUE]]
  /\ hist' = Started("route_confirm", 0)
  /\ UNCHANGED <<store, clock, accepted, confirmed>>

\* route_confirm_payment: listing_update of the document the route changed;
\* a cas mismatch is not caught.
route_confirm_payment_update(p) ==
  LET pr == procs[p] IN
  /\ pr.pc = "rc_upd" /\ MayStep(p)
  /\ IF pr.cas
       THEN /\ listing' = route_confirm_mutate(listing, pr.qty)
            /\ procs' = Written(p, Done(pr, "ok"), <<"listing", 0>>)
            /\ hist' = RoundTrip(pr)
       ELSE /\ procs' = [procs EXCEPT ![p] = Done(pr, "exc")]
            /\ UNCHANGED <<listing, hist>>
  /\ UNCHANGED <<auctions, bids, orders, clock, accepted, confirmed>>

\* The caller takes the result of a returned call.
Return(p) ==
  LET pr == procs[p] IN
  /\ pr.pc = "done" /\ MayStep(p)
  /\ procs' = [procs EXCEPT ![p] = IdleProc]
  /\ hist' = IF hist.seq
               THEN [hist EXCEPT !.snap = <<>>, !.pre = <<>>, !.args = <<>>,
                                 !.last = IF pr.op \in {"settle", "settle_fail"}
                                            THEN <<"settle", pr.a>>
                                            ELSE <<"none", 0>>]
               ELSE hist
  /\ UNCHANGED <<store, clock, accepted, confirmed>>

\* Time passes.
Tick ==
  /\ clock < MaxClock
  /\ clock' = clock + 1
  /\ UNCHANGED <<store, procs, accepted, confirmed, hist>>

Next ==
  \E p \in Procs :
     \/ \E seller \in Sellers, qty \in Quantities,
           cfg \in 1..Len(Configs), starts_at \in StartTimes :
          auction_create(p, seller, qty, cfg, starts_at)
     \/ auction_create_insert(p)
     \/ \E a \in AuctionIds : auction_activate(p, a)
     \/ \E a \in AuctionIds, bidder \in BiddersOf(p), amt \in Amounts :
          auction_place_bid(p, a, bidder, amt)
     \/ place_bid_create(p)
     \/ place_bid_prev_get(p)
     \/ place_bid_prev_update(p)
     \/ \E a \in AuctionIds : auction_cancel(p, a)
     \/ \E a \in AuctionIds : auction_settle(p, a)
     \/ settle_winner_get(p)
     \/ settle_winner_update(p)
     \/ settle_get_bids(p)
     \/ settle_mark_lost(p)
     \/ settle_order_create(p)
     \/ listing_cas_read(p)
     \/ listing_cas_write(p)
     \/ auction_cas_read(p)
     \/ auction_cas_write(p)
     \/ Return(p)

NextTimed == Tick \/ Next

\* The reservation controller under its callers: the calls on its own, the
\* seller's soft delete, and the auctions' create and cancel.
NextListing ==
  \E p \in Procs :
     \/ \E q \in Deltas : listing_reserve_quantity(p, q)
     \/ \E q \in Quantities : listing_release_reservation(p, q)
     \/ \E q \in Quantities : listing_confirm_sale(p, q)
     \/ listing_soft_delete(p)
     \/ listing_soft_delete_update(p)
     \/ \E qty \in Quantities : auction_create(p, SellerId, qty, 1, 0)
     \/ auction_create_insert(p)
     \/ \E a \in AuctionIds : auction_cancel(p, a)
     \/ listing_cas_read(p)
     \/ listing_cas_write(p)
     \/ auction_cas_read(p)
     \/ auction_cas_write(p)
     \/ Return(p)

\* The calls, with the order and ledger collaborators failing at will.
NextFaults ==
  \/ NextTimed
  \/ \E p \in Procs, fault \in Faults : settle_collaborator_fails(p, fault)

\* The life of several auctions of one listing without bidders: create,
\* cancel, and settle, which fails an auction that has no bids.
NextLife ==
  \E p \in Procs :
     \/ \E qty \in Quantities : auction_create(p, SellerId, qty, 1, 0)
     \/ auction_create_insert(p)
     \/ \E a \in 1..MaxLifeAuctions : auction_cancel(p, a)
     \/ \E a \in 1..MaxLifeAuctions : auction_settle(p, a)
     \/ listing_cas_read(p)
     \/ listing_cas_write(p)
     \/ auction_cas_read(p)
     \/ auction_cas_write(p)
     \/ Return(p)

\* The fixed-price order routes on the listing: route_order_create reserves,
\* route_order_cancel gives back (a negative quantity), the payment webhook
\* confirms through the controller, the confirm-payment routes on their own.
NextOrders ==
  \E p \in Procs :
     \/ \E q \in Deltas : listing_reserve_quantity(p, q)
     \/ \E q \in Quantities : listing_confirm_sale(p, q)
     \/ \E q \in Quantities : route_confirm_payment(p, q)
     \/ route_confirm_payment_update(p)
     \/ listing_cas_read(p)
     \/ listing_cas_write(p)
     \/ Return(p)

\* Order creation by the public and the internal route, with reservations
\* given back by route_order_cancel (a negative quantity).
NextCheckout ==
  \E p \in Procs :
     \/ \E q \in Quantities : route_order_create(p, q)
     \/ route_order_insert(p)
     \/ \E q \in Quantities : listing_reserve_quantity(p, 0 - q)
     \/ listing_cas_read(p)
     \/ listing_cas_write(p)
     \/ Return(p)

\* Tasks interleave freely at their awaits, all within one unit of time.
Spec == Init /\ [][Next]_vars

\* Calls run one after the other, while time passes.
SpecSeq == InitSeq /\ [][NextTimed]_vars

\* Calls run one after the other while collaborators may fail.
SpecFaults == InitSeq /\ [][NextFaults]_vars

\* Auctions without bidders on a listing with room for several of them.
SpecLife == InitLife /\ [][NextLife]_vars

\* Order creation on a fresh listing of any size.
SpecCheckout == InitListing /\ [][NextCheckout]_vars

\* The order routes on a fresh listing of any size.
SpecOrders == InitListing /\ [][NextOrders]_vars

\* The reservation controller on a fresh listing of any size.
SpecListing == InitListing /\ [][NextListing]_vars

TypeOK ==
  /\ listing.reserved \in Int /\ listing.sold \in Nat
  /\ \A p \in Procs : procs[p].att \in 0..MAX_RETRIES
  /\ Len(bids) <= MaxBids /\ Len(orders) <= MaxOrders

\* ================================================================= claims
BidsOf(a) == {b \in 1..Len(bids) : bids[b].auction = a}
AcceptedOf(a) == BidsOf(a) \cap accepted
OrdersOf(a) == {o \in 1..Len(orders) : orders[o].auction = a}
WonOf(a) == {b \in BidsOf(a) : bids[b].status = "won"}
Created == {a \in DOMAIN auctions : auctions[a].status # "none"}

RECURSIVE SumQuantity(_)
SumQuantity(S) ==
  IF S = {} THEN 0
  ELSE LET a == CHOOSE x \in S : TRUE
       IN auctions[a].quantity + SumQuantity(S \ {a})

\* C1: in every state of the listing, quantity_reserved >= 0 and
\* quantity_reserved + quantity_sold <= quantity_tonnes.
C1_ReservedPlusSoldWithinTotal ==
  /\ listing.reserved >= 0
  /\ listing.reserved + listing.sold <= ListingTotal

\* C2: inventory is never double-sold: quantity_sold never exceeds
\* quantity_tonnes, and the settled auctions' quantities sum to at most
\* quantity_tonnes.
C2_NeverDoubleSold ==
  /\ listing.sold <= ListingTotal
  /\ SumQuantity({a \in Created : auctions[a].status = "settled"}) <= ListingTotal

\* C3: the auction's denormalized high-bid fields are those of the
\* highest-amount bid accepted so far.
C3_HighBidIsHighestAccepted ==
  \A a \in Created :
    AcceptedOf(a) # {} =>
      LET h == auctions[a].current_high_bid_id IN
      /\ h \in AcceptedOf(a)
      /\ \A b \in AcceptedOf(a) : bids[b].amount <= bids[h].amount
      /\ auctions[a].current_high_bid_eur = bids[h].amount
      /\ auctions[a].current_high_bidder_id = bids[h].bidder

\* C4: once no auction_place_bid call is in flight, bid_count equals the
\* number of Bid records of the auction, and no Bid record exists for a call
\* that returned an error.
C4_BidCountIsBidRecords ==
  /\ (\A p \in Procs : procs[p].op = "bid" => procs[p].pc = "done") =>
       \A a \in Created : auctions[a].bid_count = Cardinality(BidsOf(a))
  /\ \A p \in Procs :
       (procs[p].pc = "done" /\ procs[p].op = "bid" /\ procs[p].res = "err")
         => procs[p].bid = 0

\* C5: whatever the interleaving of the settle calls on an auction, at most
\* one order is created for it and listing_confirm_sale is applied to it at
\* most once.
C5_OneOrderOneConfirm ==
  \A a \in AuctionIds :
    /\ Cardinality(OrdersOf(a)) <= 1
    /\ confirmed[a] <= 1

\* C6: a settle call that directly follows a completed settle call on the same
\* auction leaves listing, auctions, bids and orders as it found them.
C6_SecondSettleChangesNothing ==
  hist.snap # <<>> => store = hist.snap[1]

\* C6 witness: the second call has returned on an auction the first settled.
C6_Witness ==
  /\ hist.snap # <<>>
  /\ \E p \in Procs :
       /\ procs[p].pc = "done" /\ procs[p].op = "settle"
       /\ procs[p].res = "err"
       /\ auctions[procs[p].a].status = "settled"
       /\ Cardinality(OrdersOf(procs[p].a)) = 1
       /\ confirmed[procs[p].a] = 1

Settlement(d) ==
  <<d.status, d.winner_id, d.winning_bid_id, d.winning_price, d.order_id>>

\* C7: once an auction is settled, its status, winner_id, winning_bid_id,
\* winning price and order_id never change.
C7_SettledNeverReopened ==
  [][\A a \in AuctionIds :
       auctions[a].status = "settled" =>
         Settlement(auctions'[a]) = Settlement(auctions[a])]_vars

StatusEdges ==
  { <<"none", "scheduled">>, <<"none", "active">>,
    <<"scheduled", "active">>, <<"active", "ended">>,
    <<"ended", "settled">>, <<"ended", "failed">>,
    <<"active", "bought_now">>, <<"bought_now", "settled">>,
    <<"scheduled", "cancelled">>, <<"active", "cancelled">>,
    <<"active", "failed">> }

\* C8: every change of an auction's status follows an edge of the lifecycle;
\* settled, failed and cancelled have no outgoing edge.
C8_StatusFollowsLifecycle ==
  [][\A a \in AuctionIds :
       auctions'[a].status # auctions[a].status =>
         <<auctions[a].status, auctions'[a].status>> \in StatusEdges]_vars

\* C9: at most one bid of an auction is won, and exactly one once the auction
\* is settled.
C9_ExactlyOneWinner ==
  \A a \in Created :
    /\ Cardinality(WonOf(a)) <= 1
    /\ auctions[a].status = "settled" => Cardinality(WonOf(a)) = 1

\* C10: no two accepted bids of an auction have the same unit amount.
C10_NoTies ==
  \A a \in Created : \A b, c \in AcceptedOf(a) :
    b # c => bids[b].amount # bids[c].amount

\* C11: an auction with status cancelled has bid_count = 0, also when
\* auction_cancel runs concurrently with auction_place_bid or auction_settle.
C11_CancelledHasNoBids ==
  \A a \in Created :
    auctions[a].status = "cancelled" => auctions[a].bid_count = 0

\* C12: in a settled auction the winner is the bid current_high_bid_id names:
\* winning_bid_id, winner_id and the winning price equal the high-bid fields.
C12_WinnerIsHighBid ==
  \A a \in Created :
    auctions[a].status = "settled" =>
      /\ auctions[a].winning_bid_id = auctions[a].current_high_bid_id
      /\ auctions[a].winner_id = auctions[a].current_high_bidder_id
      /\ auctions[a].winning_price = auctions[a].current_high_bid_eur

\* C13: a successful listing_reserve_quantity(q), q > 0, directly followed
\* by listing_release_reservation(q), with no other write of the listing in
\* between, restores quantity_reserved and leaves quantity_sold and status
\* as they were.
C13_ReserveReleaseRoundTrip ==
  (hist.rt # <<>> /\ hist.rt[3] = "released") => listing = hist.rt[2]

\* C13 witness: the round trip has run on a listing that already held a
\* reservation.
C13_Witness ==
  /\ hist.rt # <<>> /\ hist.rt[3] = "released"
  /\ hist.rt[2].reserved > 0
  /\ listing.reserved = hist.rt[2].reserved

InHelperWrite(pr) == pr.pc \in {"l_upd", "a_upd"}

\* C14: the retry helpers make at most 5 write attempts per call, with
\* delays 10, 20, 40, 80, 160 ms before the retries.
C14_AtMostFiveAttempts ==
  \A p \in Procs :
    InHelperWrite(procs[p]) =>
      /\ procs[p].att + 1 <= 5
      /\ procs[p].backoff_ms = BACKOFF_MS * 2 ^ procs[p].att

\* C14 as amended: the helpers make at most 6 write attempts per call (one
\* and 5 retries); a conflict on attempts 1 to 5 is followed by a sleep of
\* 10, 20, 40, 80, 160 ms and a re-read, a conflict on attempt 6 ends the
\* call with the conflict error.
C14_SixAttemptsThenConflict ==
  [][\A p \in Procs :
       LET pr == procs[p] IN
       (InHelperWrite(pr) /\ procs'[p].pc # pr.pc) =>
         /\ pr.att + 1 <= MAX_RETRIES + 1
         /\ pr.backoff_ms = BACKOFF_MS * 2 ^ pr.att
         /\ (~pr.cas /\ pr.att < MAX_RETRIES) =>
              /\ pr.backoff_ms \in {10, 20, 40, 80, 160}
              /\ procs'[p].pc = (IF pr.pc = "l_upd" THEN "l_get" ELSE "a_get")
              /\ procs'[p].att = pr.att + 1
         /\ (~pr.cas /\ pr.att = MAX_RETRIES /\ pr.op \in Direct) =>
              /\ procs'[p].pc = "done" /\ procs'[p].res = "err"
              /\ procs'[p].cas_err = "conflict"
         /\ (~pr.cas) => listing' = listing /\ auctions' = auctions]_vars

\* C14 witness: a call of the controller has returned the conflict error
\* after its sixth attempt.
C14_Witness ==
  \E p \in Procs :
    /\ procs[p].pc = "done" /\ procs[p].op \in Direct
    /\ procs[p].cas_err = "conflict"

\* C15: when a listing or auction retry-helper call made inside an operation
\* returned failure, the operation does not return success.
C15_FailedStepReported ==
  \A p \in Procs :
    (procs[p].pc = "done" /\ procs[p].failed) => procs[p].res # "ok"

\* What a call of the controller sees of the task p over one step.
ReserveReturns(p, res) ==
  /\ procs[p].pc # "done" /\ procs'[p].pc = "done"
  /\ procs'[p].op = "reserve" /\ procs'[p].qty > 0
  /\ procs'[p].res = res

ReserveReads(p) ==
  /\ procs[p].pc \in {"idle", "l_get"} /\ procs'[p].pc = "l_upd"
  /\ procs'[p].op = "reserve" /\ procs'[p].qty > 0

Fits(l, q) == l.reserved + q <= l.total - l.sold

\* C16: listing_reserve_quantity(q), q > 0, succeeds, writing reserved + q,
\* if and only if reserved + q <= quantity_tonnes - quantity_sold on the
\* version it writes against; on a version where it does not fit the call
\* returns the availability error at once and leaves the listing unchanged.
C16_ReserveIffAvailable ==
  [][\A p \in Procs :
       LET q == procs'[p].qty IN
       /\ ReserveReturns(p, "ok") =>
            /\ Fits(listing, q)
            /\ listing' = [listing EXCEPT !.reserved = @ + q]
       /\ (ReserveReturns(p, "err") /\ procs'[p].cas_err = "abort") =>
            /\ ~Fits(listing, q)
            /\ procs[p].pc \in {"idle", "l_get"}
            /\ listing' = listing
       /\ ReserveReads(p) => Fits(listing, q) /\ listing' = listing
       /\ (ReserveReturns(p, "err") /\ procs'[p].cas_err # "abort") =>
            /\ procs'[p].cas_err = "conflict"
            /\ listing' = listing]_vars

\* C16 witness: one call has reserved the last tonne of a listing partly
\* sold, another has been refused.
C16_Witness ==
  \E p, r \in Procs :
    /\ procs[p].pc = "done" /\ procs[p].op = "reserve" /\ procs[p].qty > 0
    /\ procs[p].res = "ok"
    /\ listing.sold > 0 /\ listing.reserved = listing.total - listing.sold
    /\ procs[r].pc = "done" /\ procs[r].op = "reserve" /\ procs[r].qty > 0
    /\ procs[r].cas_err = "abort"

\* The step in which task p's listing_confirm_sale writes the listing.
ConfirmWrites(p) ==
  /\ procs[p].pc = "l_upd" /\ LOp(procs[p]) = "confirm"
  /\ procs[p].cas /\ procs'[p].pc # "l_upd"

\* C17: listing_confirm_sale(q) changes the listing in one write in which
\* quantity_reserved decreases by exactly q and quantity_sold increases by
\* exactly q (reserved + sold unchanged), and status becomes sold_out when
\* the resulting quantity_sold >= quantity_tonnes.
C17_ConfirmMovesReservedToSold ==
  [][\A p \in Procs :
       ConfirmWrites(p) =>
         LET q == LQty(procs[p]) IN
         /\ listing'.reserved = listing.reserved - q
         /\ listing'.sold = listing.sold + q
         /\ listing'.reserved + listing'.sold = listing.reserved + listing.sold
         /\ listing'.status = IF listing'.sold >= listing.total
                                THEN "sold_out" ELSE listing.status]_vars

\* C18: the listing has status sold_out if and only if
\* quantity_sold >= quantity_tonnes, after any sequence of controller
\* operations and status transitions (listing_soft_delete included).
C18_SoldOutIffAllSold ==
  listing.status = "sold_out" <=> listing.sold >= listing.total

\* The step in which task p's auction_create returns res.
CreateReturns(p, res) ==
  /\ procs[p].pc # "done" /\ procs'[p].pc = "done"
  /\ procs'[p].op = "create" /\ procs'[p].res = res

\* C19: with calls run one after the other, auction_create creates an
\* auction only after the reservation succeeded on a listing that belongs
\* to the seller and is active; a failed call creates nothing and leaves the
\* listing as it was; the new auction has effective_ends_at = ends_at,
\* bid_count = 0 and status scheduled if starts_at is in the future, else
\* active.
C19_CreateAfterReserve ==
  [][\A p \in Procs :
       /\ CreateReturns(p, "err") =>
            /\ store' = hist'.pre[1]
            /\ procs'[p].a = 0
       /\ CreateReturns(p, "ok") =>
            LET a == procs'[p].a
                d == auctions'[a]
                l == hist.pre[1][1]
            IN /\ auctions[a].status = "none"
               /\ procs'[p].seller = SellerId /\ l.status = "active"
               /\ Fits(l, d.quantity)
               /\ listing' = [l EXCEPT !.reserved = @ + d.quantity]
               /\ d.effective_ends_at = d.ends_at /\ d.bid_count = 0
               /\ hist.pre[2] <= procs'[p].now /\ procs'[p].now <= clock'
               /\ d.status = IF procs'[p].starts_at > procs'[p].now
                               THEN "scheduled" ELSE "active"
       /\ \A a \in AuctionIds :
            (auctions[a].status = "none" /\ auctions'[a].status # "none") =>
              \E q \in Procs : CreateReturns(q, "ok") /\ procs'[q].a = a]_vars

\* C19 witness: a call on the seller's active listing has failed on its
\* reservation, as time has passed.
C19_Witness ==
  \E p \in Procs :
    /\ procs[p].pc = "done" /\ procs[p].op = "create"
    /\ procs[p].res = "err" /\ procs[p].cas_err = "abort"
    /\ ~Fits(listing, procs[p].qty) /\ listing.status = "active"
    /\ Created = {} /\ clock > 0

\* Steps of task p's auction_activate: it returns res, it goes from a read
\* on to its write, it writes.
ActivateReturns(p, res) ==
  /\ procs[p].pc # "done" /\ procs'[p].pc = "done"
  /\ procs'[p].op = "activate" /\ procs'[p].res = res

ActivateReads(p) ==
  /\ procs[p].pc \in {"idle", "a_get"} /\ procs'[p].pc = "a_upd"
  /\ procs'[p].op = "activate"

ActivateSteps(p) ==
  /\ procs'[p].op = "activate" /\ procs'[p].pc # procs[p].pc
  /\ procs[p].pc # "done"

\* C20: auction_activate sets the status to active only on a version whose
\* status is scheduled; on any other status it returns an error, writes
\* nothing and leaves the auction unchanged.
C20_ActivateOnlyScheduled ==
  [][\A p \in Procs :
       LET a == procs'[p].a IN
       /\ ActivateReturns(p, "ok") =>
            /\ auctions[a].status = "scheduled"
            /\ auctions' = [auctions EXCEPT ![a].status = "active"]
       /\ ActivateReturns(p, "err") =>
            /\ procs'[p].cas_err = "abort" => auctions[a].status # "scheduled"
            /\ auctions' = auctions
       /\ ActivateReads(p) =>
            auctions[a].status = "scheduled" /\ auctions' = auctions
       /\ (ActivateSteps(p) /\ auctions' # auctions) => ActivateReturns(p, "ok")
       /\ ActivateSteps(p) => UNCHANGED <<listing, bids, orders>>]_vars

\* C20 witness: one call has activated the auction and a second call on it
\* has been refused.
C20_Witness ==
  \E p, r \in Procs :
    /\ procs[p].pc = "done" /\ procs[p].op = "activate" /\ procs[p].res = "ok"
    /\ procs[r].pc = "done" /\ procs[r].op = "activate"
    /\ procs[r].cas_err = "abort" /\ procs[r].a = procs[p].a
    /\ auctions[procs[p].a].status = "active"

\* ---- C21 ----
\* The call of auction_place_bid that has just returned, in a run of calls
\* made one after another: the auction, the clock and the store as they were
\* when the call was made.
BidCalls == {p \in Procs : procs[p].pc = "done" /\ procs[p].op = "bid"
                            /\ hist.pre # <<>>}
PreStore == hist.pre[1]
PreAuction(p) == hist.pre[1][2][procs[p].a]
PreClock == hist.pre[2]
Bidder == hist.args[1]
Amount == hist.args[2]

\* The minimum acceptable amount on auction record d.
MinimumBid(d) ==
  IF d.current_high_bid_eur = 0 THEN StartingPrice
  ELSE d.current_high_bid_eur + MIN_BID_INCREMENT

\* The four reasons for which a bid is refused.
Refused(p) ==
  \/ PreAuction(p).status # "active"
  \/ PreClock > PreAuction(p).effective_ends_at
  \/ Bidder = SellerId
  \/ Amount < MinimumBid(PreAuction(p))

OpenBidCalls ==
  {p \in BidCalls : /\ PreAuction(p).status = "active"
                    /\ PreClock <= PreAuction(p).effective_ends_at
                    /\ Bidder # SellerId}

\* C22: with no concurrent activity a bid on an active auction is accepted
\* exactly when its amount is at least the starting price (no current high
\* bid) or at least current_high_bid_eur + min_bid_increment (otherwise); the
\* first accepted bid sets current_high_bid_eur to its amount and bid_count
\* to 1, and every accepted bid raises bid_count by exactly 1.
C22_AcceptedIffAtLeastMinimum ==
  \A p \in OpenBidCalls :
    LET d0 == PreAuction(p)
        d == auctions[procs[p].a]
        pr == procs[p]
    IN /\ pr.res = "ok" <=>
            IF d0.current_high_bid_eur = 0
              THEN Amount >= StartingPrice
              ELSE Amount >= d0.current_high_bid_eur + MIN_BID_INCREMENT
       /\ pr.res = "ok" =>
            /\ pr.bid \in 1..Len(bids) /\ pr.bid \notin 1..Len(PreStore[3])
            /\ d.bid_count = d0.bid_count + 1
            /\ d.current_high_bid_eur = bids[pr.bid].amount
            /\ d0.bid_count = 0 => d.bid_count = 1

\* A second bid of exactly current_high_bid_eur + min_bid_increment has been
\* accepted.
C22_Witness ==
  \E p \in OpenBidCalls :
    /\ procs[p].res = "ok" /\ PreAuction(p).bid_count = 1
    /\ Amount = PreAuction(p).current_high_bid_eur + MIN_BID_INCREMENT
    /\ auctions[procs[p].a].bid_count = 2

\* ---- C23 ----
\* The task whose auction write records bid b in this step.
Accepts(p, b) ==
  /\ procs[p].pc = "a_upd" /\ procs[p].mop = "bid" /\ procs[p].bid = b
  /\ b \in accepted' \ accepted

\* The bids of auction a recorded on it so far that triggered buy-now.
BuyNowBids(a) == {b \in AcceptedOf(a) : bids[b].is_buy_now}

\* C23: when the auction has a buy-now price and an accepted bid's amount is
\* at least that price, the recorded amount is the buy-now price, the Bid has
\* status buy_now, and the auction write that records the bid also sets
\* status bought_now, winner_id, winning_bid_id and the winning price, before
\* effective_ends_at; no later bid is accepted on that auction.
C23_BuyNowEndsAuction ==
  [][\A p \in Procs : \A b \in 1..Len(bids) : Accepts(p, b) =>
       LET a == procs[p].a
           buy_now == Configs[auctions[a].cfg].buy_now
           d == auctions'[a]
       IN /\ BuyNowBids(a) = {} /\ auctions[a].status = "active"
          /\ IF buy_now # 0 /\ procs[p].amount_per_tonne_eur >= buy_now
               THEN /\ bids[b].amount = buy_now
                    /\ bids[b].status = "buy_now" /\ bids[b].is_buy_now
                    /\ d.status = "bought_now"
                    /\ d.winner_id = procs[p].bidder
                    /\ d.winning_bid_id = b
                    /\ d.winning_price = buy_now
                    /\ d.current_high_bid_id = b
                    /\ clock <= auctions[a].effective_ends_at
               ELSE /\ bids[b].amount = procs[p].amount_per_tonne_eur
                    /\ ~bids[b].is_buy_now
                    /\ d.status = "active" /\ d.winning_bid_id = 0
    ]_vars

\* A bid at or above the buy-now price has ended an auction that had a high bid, and
\* its call has returned.
C23_Witness ==
  \E a \in Created : \E b \in BuyNowBids(a) :
    /\ auctions[a].status = "bought_now" /\ auctions[a].winning_bid_id = b
    /\ auctions[a].bid_count = 2
    /\ bids[b].amount = Configs[auctions[a].cfg].buy_now
    /\ \E p \in Procs : procs[p].pc = "done" /\ procs[p].bid = b

\* ---- C24 ----
\* C24: an accepted bid whose remaining time (effective_ends_at minus the
\* bid's timestamp) is at most the anti-snipe window extends
\* effective_ends_at by exactly the extension duration and raises
\* extensions_count by 1; any other accepted bid leaves both unchanged.
C24_AntiSnipeExtends ==
  [][\A p \in Procs : \A b \in 1..Len(bids) : Accepts(p, b) =>
       LET d0 == auctions[procs[p].a]
           d == auctions'[procs[p].a]
           remaining == d0.effective_ends_at - procs[p].now
       IN IF remaining <= AUTO_EXTEND
            THEN /\ d.effective_ends_at
                      = d0.effective_ends_at + AUTO_EXTEND_DURATION
                 /\ d.extensions_count = d0.extensions_count + 1
            ELSE /\ d.effective_ends_at = d0.effective_ends_at
                 /\ d.extensions_count = d0.extensions_count
    ]_vars

\* Two bids have each extended the auction.
C24_Witness ==
  \E a \in Created :
    /\ auctions[a].extensions_count = 2
    /\ auctions[a].effective_ends_at = EndsAt + 2 * AUTO_EXTEND_DURATION
    /\ auctions[a].bid_count = 2

\* ---- C25 ----
\* C25: effective_ends_at is at least ends_at in every state of an auction,
\* and no step lowers it.
C25_EffectiveEndNeverEarlier ==
  [][\A a \in AuctionIds : auctions'[a].status # "none" =>
       /\ auctions'[a].effective_ends_at >= auctions'[a].ends_at
       /\ auctions[a].status # "none" =>
            /\ auctions'[a].effective_ends_at >= auctions[a].effective_ends_at
            /\ auctions'[a].ends_at = auctions[a].ends_at
    ]_vars

\* An auction extended past its original end has afterwards been settled.
C25_Witness ==
  \E a \in Created :
    /\ auctions[a].effective_ends_at > auctions[a].ends_at
    /\ auctions[a].status = "settled"

\* ---- C26 ----
\* No call of auction_place_bid is in progress.
BidsReturned == \A p \in Procs : procs[p].op = "bid" => procs[p].pc = "done"

\* C26: once every in-flight auction_place_bid call has returned, every
\* accepted bid of an auction still open for bidding, other than the one
\* current_high_bid_id refers to, has status outbid, whatever the
\* interleaving of the bidders was.
C26_SupersededBidsOutbid ==
  BidsReturned =>
    \A a \in Created : auctions[a].status = "active" =>
      \A b \in AcceptedOf(a) \ {auctions[a].current_high_bid_id} :
        bids[b].status = "outbid"

\* ---- C27 ----
\* The step of task p in which its Bid.update of the previous high bid is
\* refused by the store (the record changed since p read it).
OutbidUpdateFails(p) ==
  /\ procs[p].pc = "pb_pupd" /\ ~procs[p].cas
  /\ procs'[p].pc # "pb_pupd"

\* C27: marking the previous high bid outbid is best-effort: when the update
\* of the previous Bid fails after the auction write succeeded,
\* auction_place_bid still returns (bid, None) and the auction keeps the
\* fields the bid's write gave it.
C27_OutbidFailureAbsorbed ==
  [][\A p \in Procs : OutbidUpdateFails(p) =>
       /\ procs'[p].pc = "done" /\ procs'[p].res = "ok"
       /\ procs'[p].bid = procs[p].bid /\ procs[p].bid \in accepted
       /\ auctions' = auctions /\ bids' = bids
    ]_vars

\* A bid call has returned (bid, None) after its update of the previous high
\* bid was refused, the previous bid having been marked by a settlement in
\* between.
C27_Witness ==
  \E p \in Procs :
    /\ procs[p].pc = "done" /\ procs[p].op = "bid" /\ procs[p].warned
    /\ procs[p].res = "ok" /\ procs[p].bid \in accepted
    /\ \E b \in BidsOf(procs[p].a) \ {procs[p].bid} : bids[b].status # "outbid"

\* ---- C28 ----
\* The call of auction_settle that has just returned, in a run of calls made
\* one after another.
SettleCalls ==
  {p \in Procs : /\ procs[p].pc = "done" /\ hist.pre # <<>>
                 /\ procs[p].op \in {"settle", "settle_fail"}}

\* The auction as the call found it is settleable and has no bids, or has a
\* reserve price above its current high bid.
NoSale(d) ==
  /\ d.status \in {"active", "ended", "bought_now"}
  /\ \/ d.bid_count = 0
     \/ d.current_high_bid_id = 0
     \/ /\ Configs[d.cfg].reserve # 0
        /\ d.current_high_bid_eur < Configs[d.cfg].reserve

\* C28: auction_settle on an auction with no bids, or whose reserve price is
\* above its current high bid, takes the fail path: the listing's
\* quantity_reserved goes down by exactly the auctioned quantity (the
\* reservation is released once), quantity_sold is unchanged, no order is
\* created, no bid is marked won and the auction's status becomes failed.
C28_FailPathReleasesOnce ==
  \A p \in SettleCalls : NoSale(PreAuction(p)) =>
    LET a == procs[p].a IN
    /\ procs[p].res = "ok"
    /\ listing.reserved = PreStore[1].reserved - PreAuction(p).quantity
    /\ listing.sold = PreStore[1].sold
    /\ listing.total = PreStore[1].total
    /\ orders = PreStore[4]
    /\ WonOf(a) = {}
    /\ auctions[a].status = "failed"

\* Settlement has failed an auction whose high bid was below its reserve
\* price.
C28_Witness ==
  \E p \in SettleCalls :
    /\ NoSale(PreAuction(p)) /\ PreAuction(p).bid_count > 0
    /\ PreAuction(p).quantity > 0 /\ listing.reserved = 0
    /\ auctions[procs[p].a].status = "failed"

\* ---- C29 ----
\* C29: a failure of the order or ledger collaborator during settlement is
\* logged and absorbed by auction_settle: the call does not end with an
\* unhandled error, and what it had written to the listing, the auction and
\* the bids is still there when it returns.
C29_CollaboratorFailureAbsorbed ==
  \A p \in Procs : procs[p].pc = "done" /\ procs[p].fault # "none" =>
    /\ procs[p].res # "exc"
    /\ auctions[procs[p].a].status \in {"ended", "bought_now", "settled"}
    /\ WonOf(procs[p].a) # {}

\* ---- C30 ----
\* Task p completes the write of a reservation controller operation in this
\* step.
ControllerWrites(p) ==
  /\ procs[p].pc = "l_upd" /\ procs[p].cas /\ procs'[p].pc # "l_upd"
  /\ LOp(procs[p]) \in {"reserve", "release", "confirm"}

\* C30: a listing's quantity_reserved and quantity_sold are changed only by
\* listing_reserve_quantity, listing_release_reservation and
\* listing_confirm_sale: every step that changes either field is the write
\* of one of these cas-retry operations, the steps taken when a fixed-price
\* order's payment is confirmed included.
C30_OnlyControllerChangesQuantities ==
  [][listing'.reserved # listing.reserved \/ listing'.sold # listing.sold
       => \E p \in Procs : ControllerWrites(p)]_vars

\* ---- C31 ----
\* Task p is in, or has just returned from, listing_reserve_quantity called
\* on its own with a negative quantity.
NegativeReserve(pr) == pr.op = "reserve" /\ pr.qty < 0

\* C31: a negative delta passed to reserve is an alternate release path: on
\* every listing state and for every q > 0, listing_reserve_quantity(-q)
\* returns what listing_release_reservation(q) returns and writes what it
\* writes: it is never refused by the mutator, and its write sets
\* quantity_reserved to max(reserved - q, 0) and nothing else.
C31_NegativeReserveIsRelease ==
  [][\A p \in Procs : NegativeReserve(procs'[p]) =>
       /\ procs'[p].cas_err # "abort"
       /\ (procs[p].pc = "l_upd" /\ procs[p].cas /\ procs'[p].pc # "l_upd")
            => listing' = release_mutate(listing, 0 - procs[p].qty)
    ]_vars

\* ---- C32 ----
\* The fields of an auction record that only an accepted bid sets.
BidFields(d) ==
  <<d.current_high_bid_eur, d.current_high_bid_id, d.current_high_bidder_id,
    d.bid_count, d.effective_ends_at, d.extensions_count>>

\* C32: no bid is accepted on an auction that is not active at write time:
\* every write that changes current_high_bid_*, bid_count, effective_ends_at
\* or extensions_count replaces a version whose status is active, and once
\* the status has left active it does not come back and those fields never
\* change again.
C32_BidFieldsChangeOnlyWhenActive ==
  [][\A a \in Created :
       /\ BidFields(auctions'[a]) # BidFields(auctions[a])
            => auctions[a].status = "active"
       /\ auctions'[a].status = "active"
            => auctions[a].status \in {"scheduled", "active"}
    ]_vars

\* A bid that passed the validation on the first read has been refused by
\* the mutator, the auction having left active in between; its Bid record
\* exists and the auction's fields are not the bid's.
C32_Witness ==
  \E p \in Procs :
    /\ procs[p].pc = "done" /\ procs[p].op = "bid" /\ procs[p].res = "err"
    /\ procs[p].cas_err = "abort" /\ procs[p].bid # 0
    /\ auctions[procs[p].a].status # "active"
    /\ auctions[procs[p].a].current_high_bid_id # procs[p].bid

\* ---- C33 ----
\* No call is in progress.
AllReturned == \A p \in Procs : procs[p].pc \in {"idle", "done"}

\* C33: after auction_settle has settled an auction, no Bid record of that
\* auction has status active: the winning bid is won and every other bid is
\* outbid, lost or buy_now, the bids whose placement overlapped with the
\* settlement included.
C33_NoActiveBidAfterSettle ==
  AllReturned =>
    \A a \in Created : auctions[a].status = "settled" =>
      /\ \A b \in BidsOf(a) : bids[b].status # "active"
      /\ auctions[a].winning_bid_id \in BidsOf(a)
      /\ bids[auctions[a].winning_bid_id].status = "won"

\* ---- C34 ----
\* C34: an auction is settled only after its reservation was converted into
\* a sale: whenever an auction is settled, its order_id is the id of an order
\* whose buyer is its winner_id, and listing_confirm_sale of the auctioned
\* quantity has been applied to its listing exactly once.
C34_SettledAfterOneConfirm ==
  \A a \in Created : auctions[a].status = "settled" =>
    /\ auctions[a].order_id \in OrdersOf(a)
    /\ orders[auctions[a].order_id].buyer = auctions[a].winner_id
    /\ orders[auctions[a].order_id].quantity = auctions[a].quantity
    /\ confirmed[a] = 1

\* ---- C35 ----
\* The auctions that still hold their reservation: not yet settled, failed
\* or cancelled.
Live == {a \in Created :
           auctions[a].status \in {"scheduled", "active", "ended", "bought_now"}}

\* No call of cancel or settle (with its fail path) is in progress.
Quiet == \A p \in Procs : procs[p].op \in {"cancel", "settle", "settle_fail"}
                             => procs[p].pc = "done"

\* C35: every live auction is backed by a reservation: quantity_reserved is
\* at least the sum of quantity_tonnes over the listing's auctions whose
\* status is scheduled, active, ended or bought_now, under any interleaving
\* of create, cancel, fail and settle.
C35_LiveAuctionsReserved ==
  Quiet => listing.reserved >= SumQuantity(Live)

\* ---- C36 ----
\* Task p's listing write in this step applies the inventory operation of
\* an auction: the release of a cancel or of the fail path, or the confirm
\* of a settlement.
Disposes(p) ==
  /\ procs[p].pc = "l_upd" /\ procs[p].cas /\ procs'[p].pc # "l_upd"
  /\ procs[p].op \in {"cancel", "settle_fail", "settle"}

\* C36: each auction's reservation is disposed of at most once: over the
\* life of an auction, whatever the interleaving of cancel, fail and settle
\* calls, the listing receives at most one inventory operation for it (one
\* release or one confirm of its quantity), never a second one.
C36_ReservationDisposedOnce ==
  [][\A p \in Procs : Disposes(p) => procs[p].a \notin hist.disposed]_vars

\* ---- C37 ----
\* An order-creation request whose reservation came back as a failure, and
\* the step in which a request stores its order.
ReservationFailed(p) == procs[p].op = "order_create" /\ procs[p].failed
StoresOrder(p) ==
  /\ procs[p].pc = "o_ins" /\ procs'[p].pc = "done"
  /\ Len(orders') = Len(orders) + 1

\* C37: a fixed-price order is created only if the reservation of its line
\* item succeeded: a request whose listing_reserve_quantity call returned a
\* failure stores no order and is answered with an error.
C37_OrderOnlyIfReserved ==
  [][\A p \in Procs :
       ReservationFailed(p) =>
         /\ ~StoresOrder(p)
         /\ procs'[p].pc = "done" => procs'[p].res = "err"]_vars
====
